---- MODULE Spec2Model ----
(***************************************************************************)
(* Autocomplete field of Stako21/react_autocomplete.                       *)
(*                                                                         *)
(* The module models the richer variant of the App component               *)
(* (src/unnamed/part_002, the same logic as src/unnamed/part_000): its     *)
(* five useState cells, the lastAppliedValueRef ref, the lodash debounce    *)
(* timer behind debouncedApply, and one action per event handler (Spec,    *)
(* FilterSpec). The simple variant (src/src/App.tsx, SimpleSpec) and the   *)
(* intermediate variant (src/unnamed/part_001, InterSpec) follow, over the *)
(* same variables.                                                         *)
(*                                                                         *)
(* Texts are sequences of one-character strings, so that trim(),           *)
(* toLowerCase() and includes() are computed and not assumed.              *)
(***************************************************************************)
EXTENDS Integers, Sequences, FiniteSets, TLC

\* Longest text the user types.
MaxLen == 2

\* Most selections made in one behaviour (caps the onSelected call log).
MaxSelections == 2

\* Characters of the texts: an upper-case letter, its lower-case form, a
\* second letter and the blank.
Alphabet == {"A", "a", "b", " "}

RECURSIVE SeqsOfLen(_)
SeqsOfLen(n) ==
  IF n = 0 THEN {<<>>}
  ELSE {Append(s, c) : s \in SeqsOfLen(n - 1), c \in Alphabet}

\* Every value event.target.value takes.
Texts == UNION {SeqsOfLen(n) : n \in 0..MaxLen}

----------------------------------------------------------------------------
\* String primitives of the JavaScript runtime, as the handlers use them.

isWhiteSpace(c) == c = " "

RECURSIVE trimStart(_)
trimStart(s) ==
  IF s = <<>> THEN <<>>
  ELSE IF isWhiteSpace(Head(s)) THEN trimStart(Tail(s))
  ELSE s

RECURSIVE trimEnd(_)
trimEnd(s) ==
  IF s = <<>> THEN <<>>
  ELSE IF isWhiteSpace(s[Len(s)]) THEN trimEnd(SubSeq(s, 1, Len(s) - 1))
  ELSE s

\* String.prototype.trim
trim(s) == trimEnd(trimStart(s))

lowerChar(c) == IF c = "A" THEN "a" ELSE c

\* String.prototype.toLowerCase
RECURSIVE toLowerCase(_)
toLowerCase(s) ==
  IF s = <<>> THEN <<>>
  ELSE <<lowerChar(Head(s))>> \o toLowerCase(Tail(s))

\* String.prototype.includes: sub occurs in s at some offset.
includes(s, sub) ==
  \E i \in 0..(Len(s) - Len(sub)) : SubSeq(s, i + 1, i + Len(sub)) = sub

----------------------------------------------------------------------------
\* The static roster (import of ./data/people), in source order.
peopleFromServer ==
  << [name |-> <<"A">>, born |-> 1, died |-> 2],
     [name |-> <<"a", "b">>, born |-> 3, died |-> 4],
     [name |-> <<"b">>, born |-> 5, died |-> 6] >>

People == {peopleFromServer[i] : i \in DOMAIN peopleFromServer}

\* Person | null: the empty tuple is null, <<p>> is the person p.
null == <<>>

VARIABLES
  selectedItem,         \* useState<Person | null>(null)
  isInputFocused,       \* useState(false)
  query,                \* useState('')
  appliedQuery,         \* useState('')
  isDropdownOpen,       \* useState(false)
  lastAppliedValueRef,  \* useRef<string>('')
  timer,                \* pending trailing call of debouncedApply: <<>> or <<value>>
  mounted,              \* the component has not been torn down
  onSelected,           \* the onSelected prop is a function
  onSelectedCalls,      \* arguments of the calls made to onSelected, in order
  lastQueryEvent,       \* history: the event that wrote query last
  clearedFocused,       \* history: the field was cleared while focused, and no
                        \* text change, blur or selection came since
  selections            \* history: number of selection events so far

vars ==
  << selectedItem, isInputFocused, query, appliedQuery, isDropdownOpen,
     lastAppliedValueRef, timer, mounted, onSelected, onSelectedCalls,
     lastQueryEvent, clearedFocused, selections >>

----------------------------------------------------------------------------
\* FilterPeople with the query compared as typed, its letter case kept.
FilterPeopleCaseSensitive(applied, focused) ==
  LET trimmed == trim(applied) IN
  IF focused /\ trimmed = <<>> THEN peopleFromServer
  ELSE SelectSeq(peopleFromServer,
                 LAMBDA person : includes(toLowerCase(person.name), trimmed))

\* FilterPeople with nothing listed for a blank query while not focused.
FilterPeopleHiddenUnfocused(applied, focused) ==
  LET trimmed == trim(applied) IN
  IF trimmed = <<>> THEN (IF focused THEN peopleFromServer ELSE <<>>)
  ELSE SelectSeq(peopleFromServer,
                 LAMBDA person :
                   includes(toLowerCase(person.name), toLowerCase(trimmed)))

\* useMemo filteredPeople, as a function of its two dependencies.
FilterPeople(applied, focused) ==
  LET trimmed == trim(applied) IN
  IF focused /\ trimmed = <<>> THEN peopleFromServer
  ELSE SelectSeq(peopleFromServer,
                 LAMBDA person :
                   includes(toLowerCase(person.name), toLowerCase(trimmed)))

filteredPeople == FilterPeople(appliedQuery, isInputFocused)

\* isOpen read from the dropdown flag alone.
isOpenFlagOnly == isDropdownOpen

\* const isOpen = isInputFocused && isDropdownOpen
isOpen == isInputFocused /\ isDropdownOpen

\* The suggestion rows on screen (each carries the onMouseDown handler).
suggestionItems ==
  IF Len(filteredPeople) > 0 /\ isOpen THEN filteredPeople ELSE <<>>

\* noSuggestionsMessage rendered whenever the filter is empty, open or not.
noSuggestionsMessageUnguarded == Len(filteredPeople) = 0

\* The "No matching suggestions" alert is on screen.
noSuggestionsMessage == isOpen /\ Len(filteredPeople) = 0

\* The title region.
title ==
  IF selectedItem # null
  THEN <<selectedItem[1].name, selectedItem[1].born, selectedItem[1].died>>
  ELSE <<"No selected person">>

----------------------------------------------------------------------------
Init ==
  /\ selectedItem = null
  /\ isInputFocused = FALSE
  /\ query = <<>>
  /\ appliedQuery = <<>>
  /\ isDropdownOpen = FALSE
  /\ lastAppliedValueRef = <<>>
  /\ timer = <<>>
  /\ mounted = TRUE
  /\ onSelected \in BOOLEAN
  /\ onSelectedCalls = <<>>
  /\ lastQueryEvent = "none"
  /\ clearedFocused = FALSE
  /\ selections = 0

\* SelectionAfterChange with the comparison made on lower-cased texts.
SelectionAfterChangeFolded(item, next) ==
  IF item # null /\ toLowerCase(trim(item[1].name)) # toLowerCase(trim(next))
  THEN null ELSE item

\* SelectionAfterChange with the comparison made on the untrimmed input.
SelectionAfterChangeUntrimmed(item, next) ==
  IF item # null /\ trim(item[1].name) # next THEN null ELSE item

\* SelectionAfterChange that also selects the candidate whose name is typed.
SelectionAfterChangeReselect(item, next) ==
  IF item # null /\ trim(item[1].name) # trim(next) THEN null
  ELSE IF item = null /\ \E p \in People : p.name = next
       THEN <<CHOOSE p \in People : p.name = next>>
  ELSE item

\* The selection a text change to next leaves behind.
SelectionAfterChange(item, next) ==
  LET trimmed == trim(next) IN
  IF item # null /\ trim(item[1].name) # trimmed THEN null ELSE item

\* AppliedAfterChange with the empty input left to the debounce as well.
AppliedAfterChangeDeferred(applied, trimmed) == applied

\* The applied query a text change leaves behind: an empty input is applied
\* at once, any other input goes to the debounce.
AppliedAfterChange(applied, trimmed) ==
  IF trimmed = <<>> THEN <<>> ELSE applied

\* onChange of the input.
handleQueryChange(next) ==
  LET trimmed == trim(next) IN
  /\ mounted
  /\ query' = next
  /\ selectedItem' = SelectionAfterChange(selectedItem, next)
  /\ appliedQuery' = AppliedAfterChange(appliedQuery, trimmed)
  /\ IF trimmed = <<>>
     THEN /\ isDropdownOpen' = isInputFocused
          /\ timer' = timer
     ELSE /\ timer' = <<next>>
          /\ isDropdownOpen' = TRUE
  /\ lastQueryEvent' = "change"
  /\ clearedFocused' = (trimmed = <<>> /\ isInputFocused)
  /\ UNCHANGED << isInputFocused, lastAppliedValueRef, mounted, onSelected,
                  onSelectedCalls, selections >>

\* The function debouncedApply wraps, run with the pending value.
ApplyDebounced(value) ==
  IF lastAppliedValueRef # value
  THEN /\ appliedQuery' = value
       /\ lastAppliedValueRef' = value
  ELSE /\ appliedQuery' = appliedQuery
       /\ lastAppliedValueRef' = lastAppliedValueRef

\* The debounce delay elapses: the trailing call runs with the last argument.
\* The timer belongs to lodash, not to React: only cancel() disarms it.
timerFire ==
  /\ timer # <<>>
  /\ ApplyDebounced(timer[1])
  /\ timer' = <<>>
  /\ UNCHANGED << selectedItem, isInputFocused, query, isDropdownOpen, mounted,
                  onSelected, onSelectedCalls, lastQueryEvent, clearedFocused,
                  selections >>

\* handleFocus without setIsDropdownOpen(true).
handleFocusNoOpen ==
  /\ mounted
  /\ isInputFocused' = TRUE
  /\ appliedQuery' = IF trim(query) = <<>> THEN <<>> ELSE appliedQuery
  /\ UNCHANGED << selectedItem, query, isDropdownOpen, lastAppliedValueRef,
                  timer, mounted, onSelected, onSelectedCalls, lastQueryEvent,
                  clearedFocused, selections >>

\* onFocus of the input.
handleFocus ==
  /\ mounted
  /\ isInputFocused' = TRUE
  /\ isDropdownOpen' = TRUE
  /\ appliedQuery' = IF trim(query) = <<>> THEN <<>> ELSE appliedQuery
  /\ UNCHANGED << selectedItem, query, lastAppliedValueRef, timer, mounted,
                  onSelected, onSelectedCalls, lastQueryEvent, clearedFocused,
                  selections >>

\* handleBlur without setIsDropdownOpen(false).
handleBlurKeepsOpen ==
  /\ mounted
  /\ isInputFocused' = FALSE
  /\ clearedFocused' = FALSE
  /\ UNCHANGED << selectedItem, query, appliedQuery, isDropdownOpen,
                  lastAppliedValueRef, timer, mounted, onSelected,
                  onSelectedCalls, lastQueryEvent, selections >>

\* onBlur of the input.
handleBlur ==
  /\ mounted
  /\ isInputFocused' = FALSE
  /\ isDropdownOpen' = FALSE
  /\ clearedFocused' = FALSE
  /\ UNCHANGED << selectedItem, query, appliedQuery, lastAppliedValueRef, timer,
                  mounted, onSelected, onSelectedCalls, lastQueryEvent,
                  selections >>

\* NotifySelected without the test that the prop is a function.
NotifySelectedUnchecked(calls, supplied, person) == Append(calls, person)

\* The calls made to the onSelected prop by a selection of person.
NotifySelected(calls, supplied, person) ==
  IF supplied THEN Append(calls, person) ELSE calls

\* onMouseDown of a suggestion row.
handlePersonSelected(person) ==
  /\ mounted
  /\ \E i \in DOMAIN suggestionItems : suggestionItems[i] = person
  /\ selections < MaxSelections
  /\ selectedItem' = <<person>>
  /\ query' = person.name
  /\ appliedQuery' = person.name
  /\ isInputFocused' = FALSE
  /\ isDropdownOpen' = FALSE
  /\ onSelectedCalls' = NotifySelected(onSelectedCalls, onSelected, person)
  /\ lastQueryEvent' = "select"
  /\ clearedFocused' = FALSE
  /\ selections' = selections + 1
  /\ UNCHANGED << lastAppliedValueRef, timer, mounted, onSelected >>

\* unmount with no effect cleanup: the pending call survives the teardown.
unmountNoCancel ==
  /\ mounted
  /\ mounted' = FALSE
  /\ UNCHANGED << selectedItem, isInputFocused, query, appliedQuery,
                  isDropdownOpen, lastAppliedValueRef, timer, onSelected,
                  onSelectedCalls, lastQueryEvent, clearedFocused, selections >>

\* Cleanup of the useEffect: debouncedApply.cancel() on teardown.
unmount ==
  /\ mounted
  /\ mounted' = FALSE
  /\ timer' = <<>>
  /\ UNCHANGED << selectedItem, isInputFocused, query, appliedQuery,
                  isDropdownOpen, lastAppliedValueRef, onSelected,
                  onSelectedCalls, lastQueryEvent, clearedFocused, selections >>

Next ==
  \/ \E next \in Texts : handleQueryChange(next)
  \/ timerFire
  \/ handleFocus
  \/ handleBlur
  \/ \E person \in People : handlePersonSelected(person)
  \/ unmount

Spec == Init /\ [][Next]_vars

\* The filter's two inputs drawn freely: every applied query, blank ones
\* included, under either focus state; the events then re-render from there.
FilterInit ==
  /\ appliedQuery \in Texts
  /\ isInputFocused \in BOOLEAN
  /\ isDropdownOpen = isInputFocused
  /\ selectedItem = null
  /\ query = appliedQuery
  /\ lastAppliedValueRef = <<>>
  /\ timer = <<>>
  /\ mounted = TRUE
  /\ onSelected \in BOOLEAN
  /\ onSelectedCalls = <<>>
  /\ lastQueryEvent = "none"
  /\ clearedFocused = FALSE
  /\ selections = 0

FilterSpec == FilterInit /\ [][Next]_vars

----------------------------------------------------------------------------
\* Events, as the claims name them.

\* A text change: the step of handleQueryChange for the text now in query.
TextChange == query' \in Texts /\ handleQueryChange(query')

\* A text change to a text that is empty after trim.
ClearChange == trim(query') = <<>> /\ TextChange

\* A text change to a text that is not empty after trim.
TypingChange == trim(query') # <<>> /\ TextChange

\* A selection: the step of handlePersonSelected for the person now selected.
Selection ==
  /\ selections' # selections
  /\ selectedItem' # null
  /\ handlePersonSelected(selectedItem'[1])

\* What the applied query should be once the debounce has settled on query.
Settled(q) == IF trim(q) = <<>> THEN <<>> ELSE q

----------------------------------------------------------------------------
\* C1: no stale overwrite. Whenever a timer fire changes appliedQuery, the
\* value it writes is the current query: a commit armed by an earlier
\* keystroke never replaces the "" of a later clear nor the name of a later
\* selection.
C1_NoStaleOverwrite ==
  [][(timerFire /\ appliedQuery' # appliedQuery) => appliedQuery' = query']_vars

\* C2: the debounce commits the most recent string. In every state of the
\* mounted component with no pending timer whose last query-writing event was
\* a text change, appliedQuery is query (or "" when query is blank).
C2_CommitsMostRecent ==
  (mounted /\ timer = <<>> /\ lastQueryEvent = "change")
    => appliedQuery = Settled(query)

\* C3: debounce coalescing. The text changes of a burst leave appliedQuery
\* alone, and the one timer fire that ends the burst leaves appliedQuery
\* equal to the last text of the burst.
C3_BurstCommitsLast ==
  [][ /\ TypingChange => appliedQuery' = appliedQuery
      /\ timerFire => appliedQuery' = timer[1] ]_vars

\* C4: a selection of c sets, in the same step, selectedItem = c, query =
\* c.name, appliedQuery = c.name, focus off and dropdown closed; and
\* appliedQuery stays c.name until the next text change.
C4_SelectionHolds ==
  /\ [][Selection =>
          /\ selectedItem' # null
          /\ selectedItem'[1] \in People
          /\ query' = selectedItem'[1].name
          /\ appliedQuery' = selectedItem'[1].name
          /\ ~isInputFocused'
          /\ ~isDropdownOpen']_vars
  /\ [](lastQueryEvent = "select" =>
          selectedItem # null /\ appliedQuery = selectedItem[1].name)

\* C5: clearing bypasses the debounce. A text change to a text that is empty
\* after trim leaves appliedQuery = "" in the same step, whatever the state
\* before it.
C5_ClearBypassesDebounce ==
  [][ClearChange => appliedQuery' = <<>>]_vars

\* A clear has acted on a state with a commit pending and an earlier debounce
\* commit behind it: appliedQuery is "" while the timer is still armed.
C5_Witness ==
  /\ lastQueryEvent = "change"
  /\ query # <<>> /\ trim(query) = <<>>
  /\ timer # <<>>
  /\ lastAppliedValueRef # <<>>
  /\ selections > 0
  /\ appliedQuery = <<>>

\* C6: after the field is cleared while focused, the dropdown is open and the
\* visible list is the whole roster in source order, until the next text
\* change, blur or selection.
C6_ClearedShowsRoster ==
  clearedFocused => isOpen /\ suggestionItems = peopleFromServer

\* C7: onSelected is called exactly once per selection, with the selected
\* candidate, and by no other event; without the prop a selection makes all
\* its state updates and calls nothing.
C7_OnSelectedOncePerSelection ==
  /\ [](Len(onSelectedCalls) = IF onSelected THEN selections ELSE 0)
  /\ [][IF selections' # selections
        THEN /\ selectedItem' # null
             /\ query' = selectedItem'[1].name
             /\ appliedQuery' = selectedItem'[1].name
             /\ ~isInputFocused' /\ ~isDropdownOpen'
             /\ onSelectedCalls' =
                  IF onSelected THEN Append(onSelectedCalls, selectedItem'[1])
                  ELSE <<>>
        ELSE onSelectedCalls' = onSelectedCalls]_vars

\* Two selections of different candidates were notified, in order.
C7_Witness ==
  /\ onSelected
  /\ selections = 2
  /\ Len(onSelectedCalls) = 2
  /\ onSelectedCalls[1] # onSelectedCalls[2]
  /\ selectedItem = <<onSelectedCalls[2]>>

----------------------------------------------------------------------------
\* The filter, stated without the runtime's string functions.

FoldChar(c) == IF c = "A" THEN "a" ELSE c

\* t is q without its leading and trailing blanks.
IsTrimOf(t, q) ==
  \E i, j \in 0..Len(q) :
    /\ i + j <= Len(q)
    /\ \A k \in 1..i : q[k] = " "
    /\ \A k \in (Len(q) - j + 1)..Len(q) : q[k] = " "
    /\ Len(t) = Len(q) - i - j
    /\ \A k \in 1..Len(t) : t[k] = q[i + k]
    /\ Len(t) > 0 => (t[1] # " " /\ t[Len(t)] # " ")

\* t occurs in s at some offset, letter case ignored.
OccursFolded(t, s) ==
  \E off \in 0..Len(s) :
    /\ off + Len(t) <= Len(s)
    /\ \A k \in 1..Len(t) : FoldChar(s[off + k]) = FoldChar(t[k])

\* The roster positions whose name contains trim(q), letter case ignored.
Matching(q) ==
  {i \in DOMAIN peopleFromServer :
     \E n \in 0..Len(q) : \E t \in SeqsOfLen(n) :
       IsTrimOf(t, q) /\ OccursFolded(t, peopleFromServer[i].name)}

\* r lists the roster entries at the positions of M, in roster order.
ListsInOrder(r, M) ==
  /\ Len(r) = Cardinality(M)
  /\ \A k \in 1..Len(r) :
       \E i \in M : /\ r[k] = peopleFromServer[i]
                    /\ Cardinality({j \in M : j < i}) = k - 1

\* C8: for every applied query and focus state the filter returns exactly the
\* roster candidates whose lower-cased name contains the lower-cased trimmed
\* query, in source order with no duplicates; focused with a blank query it
\* returns the whole roster.
C8_FilterExact ==
  /\ ListsInOrder(filteredPeople, Matching(appliedQuery))
  /\ (isInputFocused /\ \A k \in 1..Len(appliedQuery) : appliedQuery[k] = " ")
       => filteredPeople = peopleFromServer

\* An upper-case query with a trailing blank narrows the roster to the two
\* names that contain "a".
C8_Witness ==
  /\ appliedQuery = <<"A", " ">>
  /\ filteredPeople = <<peopleFromServer[1], peopleFromServer[2]>>

----------------------------------------------------------------------------
\* C9: a set selectedItem always has the trimmed query as its trimmed name; a
\* text change to a text with another trim clears it in the same step; and
\* selectedItem goes from null to set only by a selection, so typing the name
\* back leaves it null.
C9_SelectionTracksQuery ==
  /\ [](selectedItem # null => trim(query) = trim(selectedItem[1].name))
  /\ [][(TextChange /\ selectedItem # null
           /\ trim(query') # trim(selectedItem[1].name))
          => selectedItem' = null]_vars
  /\ [][(selectedItem = null /\ selectedItem' # null)
          => selections' = selections + 1]_vars

\* The first candidate was selected, the selection was cleared, and its exact
\* name is back in the field with nothing selected.
C9_Witness ==
  /\ onSelectedCalls = <<peopleFromServer[1]>>
  /\ lastQueryEvent = "change"
  /\ query = peopleFromServer[1].name
  /\ selectedItem = null

\* C10: the comparison that decides whether a text change clears the
\* selection ignores letter case and outer blanks: a text that differs from
\* the selected name only in those leaves selectedItem set.
C10_CaseInsensitiveKeeps ==
  [][(TextChange /\ selectedItem # null
        /\ toLowerCase(trim(query')) = toLowerCase(trim(selectedItem[1].name)))
       => selectedItem' = selectedItem]_vars

\* C10 as amended: the comparison ignores outer blanks and respects letter
\* case: a text equal to the selected name after trim leaves selectedItem
\* set, a text that differs from it after trim, if only in letter case,
\* clears it.
C10_TrimOnlyKeeps ==
  [][(TextChange /\ selectedItem # null) =>
       IF trim(query') = trim(selectedItem[1].name)
       THEN selectedItem' = selectedItem
       ELSE selectedItem' = null]_vars

\* A candidate is still selected after a text change to its name with a
\* leading blank.
C10_Witness ==
  /\ selectedItem = <<peopleFromServer[1]>>
  /\ lastQueryEvent = "change"
  /\ query = <<" ", "A">>

----------------------------------------------------------------------------
\* C11: teardown cancels the debounce. Once the component is torn down no
\* commit is pending and no state cell changes again: appliedQuery, the
\* last committed value, query, selectedItem, focus and dropdown stay put.
C11_TeardownCancels ==
  /\ [](~mounted => timer = <<>>)
  /\ [][~mounted =>
          UNCHANGED << appliedQuery, lastAppliedValueRef, query, selectedItem,
                       isInputFocused, isDropdownOpen >>]_vars

\* The component was torn down while the commit of the typed text was still
\* pending: the text is in the field and was never applied nor committed.
C11_Witness ==
  /\ ~mounted
  /\ lastQueryEvent = "change"
  /\ trim(query) # <<>>
  /\ appliedQuery # query
  /\ lastAppliedValueRef # query
  /\ timer = <<>>

----------------------------------------------------------------------------
\* C14: dropdown state machine of the richer variant. The rendered dropdown
\* is open right after a focus and after a non-empty text change made while
\* focused, closed right after a blur and after a selection, and once closed
\* it stays closed through every text change and timer fire.
C14_DropdownMachine ==
  [][ /\ handleFocus => isOpen'
      /\ (TypingChange /\ isInputFocused) => isOpen'
      /\ handleBlur => ~isOpen'
      /\ Selection => ~isOpen'
      /\ (~isOpen /\ (TextChange \/ timerFire)) => ~isOpen' ]_vars

\* A selection closed the dropdown; a text was then typed and committed by
\* the timer, and the dropdown is still closed with its flag set.
C14_Witness ==
  /\ selections > 0
  /\ lastQueryEvent = "change"
  /\ trim(query) # <<>>
  /\ timer = <<>>
  /\ appliedQuery = query
  /\ isDropdownOpen
  /\ ~isOpen

\* C15: rendering rule. While the dropdown is open exactly one of the two is
\* on screen: the rows, one per filtered candidate, when the filter result is
\* not empty, or the single notice when it is empty; while it is closed
\* neither is.
C15_RenderingRule ==
  IF isOpen
  THEN /\ (suggestionItems # <<>>) # noSuggestionsMessage
       /\ Len(filteredPeople) > 0 =>
            (suggestionItems = filteredPeople /\ ~noSuggestionsMessage)
       /\ Len(filteredPeople) = 0 =>
            (suggestionItems = <<>> /\ noSuggestionsMessage)
  ELSE suggestionItems = <<>> /\ ~noSuggestionsMessage

\* The dropdown is open on a query that matches no name: the notice and no
\* row.
C15_Witness ==
  /\ isOpen
  /\ appliedQuery = <<"b", "a">>
  /\ filteredPeople = <<>>
  /\ noSuggestionsMessage
  /\ suggestionItems = <<>>

\* C17: frame conditions of the richer variant. A timer fire leaves query,
\* selectedItem, focus and the dropdown flag alone; focus and blur leave
\* query and selectedItem alone; a text change leaves focus alone; and
\* selectedItem is written only by a selection, which sets it, and by a text
\* change, which clears it.
C17_Frames ==
  [][ /\ timerFire =>
           UNCHANGED << query, selectedItem, isInputFocused, isDropdownOpen >>
      /\ (handleFocus \/ handleBlur) => UNCHANGED << query, selectedItem >>
      /\ TextChange => isInputFocused' = isInputFocused
      /\ selectedItem' # selectedItem =>
           \/ Selection /\ selectedItem' # null
           \/ TextChange /\ selectedItem' = null ]_vars

\* A timer fire after a selection and a focus changed appliedQuery and the
\* committed value and left the selection, the field and the focus as they
\* were.
C17_Witness ==
  /\ selectedItem # null
  /\ lastQueryEvent = "select"
  /\ query = selectedItem[1].name
  /\ isInputFocused /\ isDropdownOpen
  /\ timer = <<>>
  /\ lastAppliedValueRef # <<>>
  /\ appliedQuery = lastAppliedValueRef
  /\ appliedQuery # query

\* C18: whenever the input is focused the isDropdownOpen flag is set, so the
\* rendered open state equals the focus state.
C18_FocusImpliesFlag ==
  /\ isInputFocused => isDropdownOpen
  /\ isOpen = isInputFocused

\* The field was cleared while focused: the flag took the focus state and
\* the suggestion region is on screen.
C18_Witness ==
  /\ clearedFocused
  /\ isInputFocused
  /\ isDropdownOpen
  /\ suggestionItems # <<>>

\* C19: the isDropdownOpen flag is never set while the input is not focused.
C19_FlagOnlyFocused ==
  ~(isDropdownOpen /\ ~isInputFocused)

FlagSetUnfocused == isDropdownOpen /\ ~isInputFocused

\* C19 as amended: the flag is set while the input is not focused only by a
\* non-empty text change made while not focused; focus, blur, selection and
\* an empty text change always leave the flag clear or the input focused,
\* and the rendered dropdown is closed whenever the input is not focused.
C19_FlagSetOnlyByUnfocusedTyping ==
  /\ [](~isInputFocused => ~isOpen)
  /\ [][ /\ (~FlagSetUnfocused /\ FlagSetUnfocused')
              => (TypingChange /\ ~isInputFocused)
         /\ (handleFocus \/ handleBlur \/ Selection \/ ClearChange)
              => ~FlagSetUnfocused' ]_vars

\* A text was typed while the input was not focused: the flag is set, the
\* input is not focused and nothing is rendered.
C19_Witness ==
  /\ FlagSetUnfocused
  /\ lastQueryEvent = "change"
  /\ timer = <<query>>
  /\ suggestionItems = <<>>
  /\ ~noSuggestionsMessage

\* C20: the filter result does not depend on the focus state: for every
\* applied query the result computed as focused equals the result computed
\* as not focused.
C20_FilterIgnoresFocus ==
  FilterPeople(appliedQuery, TRUE) = FilterPeople(appliedQuery, FALSE)

\* A blank applied query while not focused lists the whole roster, as it
\* does while focused.
C20_Witness ==
  /\ appliedQuery = <<" ">>
  /\ ~isInputFocused
  /\ filteredPeople = peopleFromServer

----------------------------------------------------------------------------
\* The simple variant of the component (src/src/App.tsx). It has the cells
\* selectedItem, isInputFocused, query and appliedQuery and the timer of
\* applyQuery; isDropdownOpen, lastAppliedValueRef and the onSelected prop do
\* not exist in it and keep their initial values.

\* useMemo filteredPeople of the simple variant: no trim, no focus rule.
simpleFilterPeople(applied) ==
  SelectSeq(peopleFromServer,
            LAMBDA person :
              includes(toLowerCase(person.name), toLowerCase(applied)))

simpleFilteredPeople == simpleFilterPeople(appliedQuery)

\* The suggestion rows on screen in the simple variant.
simpleSuggestionItems ==
  IF isInputFocused /\ Len(simpleFilteredPeople) # 0
  THEN simpleFilteredPeople ELSE <<>>

\* The "No matching suggestions" alert is on screen in the simple variant.
simpleNoSuggestionsMessage == Len(simpleFilteredPeople) = 0

SimpleInit ==
  /\ selectedItem = null
  /\ isInputFocused = FALSE
  /\ query = <<>>
  /\ appliedQuery = <<>>
  /\ isDropdownOpen = FALSE
  /\ lastAppliedValueRef = <<>>
  /\ timer = <<>>
  /\ mounted = TRUE
  /\ onSelected = FALSE
  /\ onSelectedCalls = <<>>
  /\ lastQueryEvent = "none"
  /\ clearedFocused = FALSE
  /\ selections = 0

\* onChange of the input: every text goes to the debounced setAppliedQuery.
simpleHandleQueryChange(next) ==
  /\ mounted
  /\ query' = next
  /\ timer' = <<next>>
  /\ selectedItem' = null
  /\ lastQueryEvent' = "change"
  /\ UNCHANGED << isInputFocused, appliedQuery, isDropdownOpen,
                  lastAppliedValueRef, mounted, onSelected, onSelectedCalls,
                  clearedFocused, selections >>

\* The delay of applyQuery elapses: setAppliedQuery runs with the last text.
applyQuery ==
  /\ timer # <<>>
  /\ appliedQuery' = timer[1]
  /\ timer' = <<>>
  /\ UNCHANGED << selectedItem, isInputFocused, query, isDropdownOpen,
                  lastAppliedValueRef, mounted, onSelected, onSelectedCalls,
                  lastQueryEvent, clearedFocused, selections >>

\* onFocus of the input.
simpleOnFocus ==
  /\ mounted
  /\ isInputFocused' = TRUE
  /\ UNCHANGED << selectedItem, query, appliedQuery, isDropdownOpen,
                  lastAppliedValueRef, timer, mounted, onSelected,
                  onSelectedCalls, lastQueryEvent, clearedFocused, selections >>

\* onBlur of the input.
simpleOnBlur ==
  /\ mounted
  /\ isInputFocused' = FALSE
  /\ UNCHANGED << selectedItem, query, appliedQuery, isDropdownOpen,
                  lastAppliedValueRef, timer, mounted, onSelected,
                  onSelectedCalls, lastQueryEvent, clearedFocused, selections >>

\* onMouseDown of a suggestion row.
simpleOnMouseDown(person) ==
  /\ mounted
  /\ \E i \in DOMAIN simpleSuggestionItems : simpleSuggestionItems[i] = person
  /\ selectedItem' = <<person>>
  /\ query' = person.name
  /\ isInputFocused' = FALSE
  /\ lastQueryEvent' = "select"
  /\ UNCHANGED << appliedQuery, isDropdownOpen, lastAppliedValueRef, timer,
                  mounted, onSelected, onSelectedCalls, clearedFocused,
                  selections >>

\* Teardown of the simple variant: no effect cleanup exists, so the handlers
\* are detached and the timer of applyQuery is left as it is.
simpleUnmount ==
  /\ mounted
  /\ mounted' = FALSE
  /\ UNCHANGED << selectedItem, isInputFocused, query, appliedQuery,
                  isDropdownOpen, lastAppliedValueRef, timer, onSelected,
                  onSelectedCalls, lastQueryEvent, clearedFocused, selections >>

SimpleNext ==
  \/ \E next \in Texts : simpleHandleQueryChange(next)
  \/ applyQuery
  \/ simpleOnFocus
  \/ simpleOnBlur
  \/ \E person \in People : simpleOnMouseDown(person)
  \/ simpleUnmount

SimpleSpec == SimpleInit /\ [][SimpleNext]_vars

\* C12: in the simple variant a commit pending in the debounce timer is
\* discarded when the component is torn down: after teardown no commit is
\* pending and appliedQuery is never written.
C12_SimpleTeardownCancels ==
  /\ [](~mounted => timer = <<>>)
  /\ [][~mounted => appliedQuery' = appliedQuery]_vars

\* C16: in the simple variant the suggestion region, the "No matching
\* suggestions" alert included, is on screen only while the input is
\* focused.
C16_SimpleAlertOnlyFocused ==
  (simpleNoSuggestionsMessage \/ simpleSuggestionItems # <<>>)
    => isInputFocused

----------------------------------------------------------------------------
\* The intermediate variant of the component (src/unnamed/part_001). Its
\* cells are selectedItem, isInputFocused, query and appliedQuery; the
\* closure variable lastValue of debouncedApply is held in
\* lastAppliedValueRef, the onPersonSelected prop in onSelected, and
\* isDropdownOpen does not exist in it.

\* useMemo filteredPeople of the intermediate variant.
interFilterPeople(applied, focused) ==
  IF focused /\ trim(applied) = <<>> THEN peopleFromServer
  ELSE SelectSeq(peopleFromServer,
                 LAMBDA person :
                   includes(toLowerCase(person.name),
                            toLowerCase(trim(applied))))

interFilteredPeople == interFilterPeople(appliedQuery, isInputFocused)

\* The suggestion rows on screen in the intermediate variant.
interSuggestionItems ==
  IF isInputFocused /\ Len(interFilteredPeople) # 0
  THEN interFilteredPeople ELSE <<>>

\* The "No matching suggestions" alert is on screen.
interNoSuggestionsMessage == Len(interFilteredPeople) = 0

InterInit ==
  /\ selectedItem = null
  /\ isInputFocused = FALSE
  /\ query = <<>>
  /\ appliedQuery = <<>>
  /\ isDropdownOpen = FALSE
  /\ lastAppliedValueRef = <<>>
  /\ timer = <<>>
  /\ mounted = TRUE
  /\ onSelected \in BOOLEAN
  /\ onSelectedCalls = <<>>
  /\ lastQueryEvent = "none"
  /\ clearedFocused = FALSE
  /\ selections = 0

\* onChange of the input: the text goes to the debounce only when it
\* differs from the applied query.
interHandleQueryChange(next) ==
  /\ mounted
  /\ query' = next
  /\ timer' = IF next # appliedQuery THEN <<next>> ELSE timer
  /\ selectedItem' = null
  /\ lastQueryEvent' = "change"
  /\ UNCHANGED << isInputFocused, appliedQuery, isDropdownOpen,
                  lastAppliedValueRef, mounted, onSelected, onSelectedCalls,
                  clearedFocused, selections >>

\* The delay of debouncedApply elapses: the wrapped function runs with the
\* last text and commits it when it differs from lastValue.
interDebouncedApply ==
  /\ timer # <<>>
  /\ IF timer[1] # lastAppliedValueRef
     THEN /\ appliedQuery' = timer[1]
          /\ lastAppliedValueRef' = timer[1]
     ELSE /\ appliedQuery' = appliedQuery
          /\ lastAppliedValueRef' = lastAppliedValueRef
  /\ timer' = <<>>
  /\ UNCHANGED << selectedItem, isInputFocused, query, isDropdownOpen, mounted,
                  onSelected, onSelectedCalls, lastQueryEvent, clearedFocused,
                  selections >>

\* onFocus of the input.
interOnFocus ==
  /\ mounted
  /\ isInputFocused' = TRUE
  /\ UNCHANGED << selectedItem, query, appliedQuery, isDropdownOpen,
                  lastAppliedValueRef, timer, mounted, onSelected,
                  onSelectedCalls, lastQueryEvent, clearedFocused, selections >>

\* onBlur of the input.
interOnBlur ==
  /\ mounted
  /\ isInputFocused' = FALSE
  /\ UNCHANGED << selectedItem, query, appliedQuery, isDropdownOpen,
                  lastAppliedValueRef, timer, mounted, onSelected,
                  onSelectedCalls, lastQueryEvent, clearedFocused, selections >>

\* onMouseDown of a suggestion row.
interHandlePersonSelected(person) ==
  /\ mounted
  /\ \E i \in DOMAIN interSuggestionItems : interSuggestionItems[i] = person
  /\ selections < MaxSelections
  /\ selectedItem' = <<person>>
  /\ query' = person.name
  /\ appliedQuery' = person.name
  /\ isInputFocused' = FALSE
  /\ onSelectedCalls' = IF onSelected THEN Append(onSelectedCalls, person)
                        ELSE onSelectedCalls
  /\ lastQueryEvent' = "select"
  /\ selections' = selections + 1
  /\ UNCHANGED << isDropdownOpen, lastAppliedValueRef, timer, mounted,
                  onSelected, clearedFocused >>

\* Cleanup of the useEffect: debouncedApply.cancel() on teardown.
interUnmount ==
  /\ mounted
  /\ mounted' = FALSE
  /\ timer' = <<>>
  /\ UNCHANGED << selectedItem, isInputFocused, query, appliedQuery,
                  isDropdownOpen, lastAppliedValueRef, onSelected,
                  onSelectedCalls, lastQueryEvent, clearedFocused, selections >>

InterNext ==
  \/ \E next \in Texts : interHandleQueryChange(next)
  \/ interDebouncedApply
  \/ interOnFocus
  \/ interOnBlur
  \/ \E person \in People : interHandlePersonSelected(person)
  \/ interUnmount

InterSpec == InterInit /\ [][InterNext]_vars

InterTextChange == query' \in Texts /\ interHandleQueryChange(query')

\* C13: in the intermediate variant a pending commit is discarded whenever a
\* newer text change arrives, whatever the newer text: after a text change
\* the only commit that can be pending is that of the new text, and a timer
\* fire never sets appliedQuery to a text other than the current query.
C13_InterSupersedes ==
  [][ /\ InterTextChange => (timer' = <<>> \/ timer' = <<query'>>)
      /\ (interDebouncedApply /\ appliedQuery' # appliedQuery)
           => appliedQuery' = query' ]_vars

====
